---- MODULE Spec2Model ----
\* EVM broadcaster worker (containers.src/evm-broadcaster/app/main.py):
\* nonce allocation with stuck-nonce reuse, the build/sign/broadcast chain and
\* the pending-transaction ledger, under concurrent /submit requests.
\*
\* The two PostgreSQL tables are modelled with READ COMMITTED semantics, the
\* isolation level psycopg2 connections get by default: every statement reads
\* the rows committed when it starts, an UPDATE re-checks its WHERE clause on a
\* row another transaction changed in the meantime, and nothing a transaction
\* wrote is visible to others before its commit.
EXTENDS Integers, Sequences, FiniteSets, TLC

\* ---------------------------------------------------------------- bounds
NumReq == 3        \* number of /submit requests handled (concurrently)
MaxTime == 7       \* horizon of the wall clock, in minutes
MaxInFlight == 2   \* requests being handled at the same time

\* ------------------------------------------------------ program constants
StuckMinutes == 5  \* INTERVAL '5 minutes'

Reqs == 1..NumReq

\* CHAINS: chain name -> configuration (a dict with four keys)
CHAINS ==
  [ base     |-> [chain_id |-> 8453,  rpc_url |-> "https://mainnet.base.org",
                  usdc |-> "0x833589fC", usdt |-> "0xfde4C96c"],
    arbitrum |-> [chain_id |-> 42161, rpc_url |-> "https://arb1.arbitrum.io/rpc",
                  usdc |-> "0xaf88d065", usdt |-> "0xFd086bC7"],
    optimism |-> [chain_id |-> 10,    rpc_url |-> "https://mainnet.optimism.io",
                  usdc |-> "0x0b2C639c", usdt |-> "0x94b008aA"] ]

\* (mutation) the name is looked up as it was spelled
LowerAsIs(s) == s

\* str.lower() and str.upper() on the strings the requests use
Lower(s) ==
  CASE s = "BASE" -> "base"
    [] s = "ETH"  -> "eth"
    [] s = "USDC" -> "usdc"
    [] OTHER      -> s

Upper(s) ==
  CASE s = "base" -> "BASE"
    [] s = "optimism" -> "OPTIMISM"
    [] s = "solana" -> "SOLANA"
    [] s = "eth"  -> "ETH"
    [] s = "usdc" -> "USDC"
    [] s = "usdt" -> "USDT"
    [] s = "doge" -> "DOGE"
    [] s = "chain_id" -> "CHAIN_ID"
    [] s = "rpc_url" -> "RPC_URL"
    [] OTHER      -> s

\* dict.get(k): the value in a one-element sequence, or <<>> for None
CfgGet(cfg, k) == IF k \in DOMAIN cfg THEN <<cfg[k]>> ELSE <<>>

\* ------------------------------------------------------------ secret keys
\* A key is a sequence of tokens: an optional "0x" and a body. <<>> is a
\* missing (None or empty) key.
HasPrefix(k) == Len(k) > 0 /\ k[1] = "0x"

\* (mutation) the prefix is added without looking for one
NormalizeKeyTwice(k) == <<"0x">> \o k

\* "if not private_key.startswith('0x'): private_key = '0x' + private_key"
NormalizeKey(k) == IF HasPrefix(k) THEN k ELSE <<"0x">> \o k

\* (mutation) Account.from_key takes any text for a key
FromKeyLenient(nk) ==
  CASE nk = <<"0x", "k1">> -> <<"0xA1">>
    [] nk = <<"0x", "k2">> -> <<"0xA2">>
    [] OTHER               -> <<"0xA3">>

\* Account.from_key on a normalized key: the address, or <<>> when it raises
FromKey(nk) ==
  CASE nk = <<"0x", "k1">> -> <<"0xA1">>
    [] nk = <<"0x", "k2">> -> <<"0xA2">>
    [] OTHER               -> <<>>

derive_evm_address(k) == FromKey(NormalizeKey(k))

\* ------------------------------------------------------------- requests
\* The JSON bodies posted to /submit.
\* a JSON body: chain, token and evmPrivateKey as given, toAddress the
\* recipient, amount the decimal string "1.0" (a string is the sequence of its
\* characters)
Body(chain, token, key) ==
  [chain |-> chain, token |-> token, key |-> key, toAddress |-> "0xTo",
   amount |-> <<"1", ".", "0">>]

Requests ==
  { Body("base",   "ETH",  <<"k1">>),
    Body("base",   "doge", <<"k1">>),
    Body("solana", "ETH",  <<"k1">>),
    Body("base",   "ETH",  <<>>),
    Body("base",   "ETH",  <<"zz">>) }

\* bodies for two accounts: one key on two chains
MultiRequests ==
  { Body("base", "ETH", <<"k1">>), Body("optimism", "ETH", <<"k1">>) }

\* chain names and token symbols handed to build_transaction
BuildChains == {"base", "BASE", "arbitrum", "optimism"}
BuildTokens == {"ETH", "eth", "USDC", "usdc", "usdt", "doge", "chain_id", "rpc_url"}
BuildAmounts ==
  { <<"1", ".", "0">>, <<"0", ".", "5">>, <<"2">>, <<"1", "2", ".", "2", "5">> }
BuildRequests ==
  { [Body(c, t, <<"k1">>) EXCEPT !.amount = a] :
      c \in BuildChains, t \in BuildTokens, a \in BuildAmounts }

\* bodies that spell the chain name in two ways, or name no configured chain
CaseRequests ==
  { Body("base", "ETH", <<"k1">>), Body("BASE", "ETH", <<"k1">>),
    Body("solana", "ETH", <<"k1">>) }

\* bodies whose keys come with and without the 0x prefix, or are no keys
KeyRequests ==
  { Body("base", "ETH", k) :
      k \in { <<"k1">>, <<"0x", "k1">>, <<"k2">>, <<"0x", "k2">>, <<"zz">> } }

\* the body posted while the read endpoints are queried
ReadRequests == { Body("base", "ETH", <<"k1">>) }

NoRequest == Body("", "", <<>>)

VARIABLES
  now,              \* wall clock (NOW()), in minutes
  evm_nonces,       \* table evm_nonces: (chain_id, from_address) -> nonce
  evm_pending_txs,  \* table evm_pending_txs: sequence of committed rows
  pc,               \* per request: the statement submit_transfer is at
  req,              \* per request: the posted JSON body
  from_address,     \* per request: local from_address
  nonce,            \* per request: local nonce
  path,             \* per request: which branch of allocate_nonce returned
  snap,             \* per request: rows the UPDATE of track_pending read
  tx_start,         \* per request: start time of the track_pending transaction
  tx,               \* per request: local tx, the built transaction
  tx_hash,          \* per request: local tx_hash
  resp,             \* per request: the HTTP response
  steps,            \* per request: the calls made so far, in order
  fresh_log,        \* per account: nonces returned by the upsert, in order
  reply             \* the answer of the latest GET request

vars == <<now, evm_nonces, evm_pending_txs, pc, req, from_address, nonce, path,
          snap, tx_start, tx, tx_hash, resp, steps, fresh_log, reply>>

NULL == <<>>
NoResp == [code |-> 0, error |-> "", txHash |-> NULL, nonce |-> -1, status |-> ""]

NoReply ==
  [query |-> <<>>, endpoint |-> "", code |-> 0, status |-> "", error |-> "", body |-> {}]

Account(cid, addr) == [chain_id |-> cid, from_address |-> addr]
ChainId(p) == CHAINS[Lower(req[p].chain)].chain_id
AccountOf(p) == Account(ChainId(p), from_address[p])

Init ==
  /\ now = 0
  /\ evm_nonces = <<>>
  /\ evm_pending_txs = <<>>
  /\ pc = [p \in Reqs |-> "idle"]
  /\ req = [p \in Reqs |-> NoRequest]
  /\ from_address = [p \in Reqs |-> ""]
  /\ nonce = [p \in Reqs |-> -1]
  /\ path = [p \in Reqs |-> "none"]
  /\ snap = [p \in Reqs |-> {}]
  /\ tx_start = [p \in Reqs |-> 0]
  /\ tx = [p \in Reqs |-> NULL]
  /\ tx_hash = [p \in Reqs |-> NULL]
  /\ resp = [p \in Reqs |-> NoResp]
  /\ steps = [p \in Reqs |-> <<>>]
  /\ fresh_log = <<>>
  /\ reply = NoReply

\* ------------------------------------------------------- submit_transfer
\* The calls of submit_transfer after validation, in program order.
CallOrder == <<"allocate", "build", "sign", "broadcast", "track">>

\* (mutation) the request answers right after the broadcast
NextCallSkipTrack(call) ==
  CASE call = "allocate"  -> "build"
    [] call = "build"     -> "sign"
    [] call = "sign"      -> "broadcast"
    [] call = "broadcast" -> "done"
    [] call = "track"     -> "done"

\* where submit_transfer goes when a call returns
NextCall(call) ==
  CASE call = "allocate"  -> "build"
    [] call = "build"     -> "sign"
    [] call = "sign"      -> "broadcast"
    [] call = "broadcast" -> "track"
    [] call = "track"     -> "done"

\* (mutation) the exception is swallowed and the next call runs
AfterRaiseResume(call) == NextCall(call)

\* where submit_transfer goes when a call raises: the except clause returns
AfterRaise(call) == "done"

\* jsonify({"error": str(e)}), code
ErrorResponse(code, msg) ==
  [code |-> code, error |-> msg, txHash |-> NULL, nonce |-> -1, status |-> ""]

\* the success body (the fields the claims read)
SuccessResponse(h, n) ==
  [code |-> 200, error |-> "", txHash |-> h, nonce |-> n, status |-> "submitted"]

Done(p, call, out) == steps' = [steps EXCEPT ![p] = Append(@, [call |-> call, out |-> out])]

\* a call returns normally
Return(p, call) ==
  /\ pc' = [pc EXCEPT ![p] = NextCall(call)]
  /\ Done(p, call, "ok")

\* a call raises: "except Exception as e" answers 500 with str(e)
Raise(p, call, msg) ==
  /\ pc' = [pc EXCEPT ![p] = AfterRaise(call)]
  /\ resp' = [resp EXCEPT ![p] = ErrorResponse(500, msg)]
  /\ Done(p, call, msg)

\* requests being handled
InFlight == { q \in Reqs : pc[q] \notin {"idle", "done"} }

\* POST /submit arrives: read the body, check key and chain, derive the address.
\* Requests are numbered in the order they arrive.
SubmitFrom(p, bodies) ==
  /\ pc[p] = "idle"
  /\ \A q \in Reqs : q < p => pc[q] # "idle"
  /\ Cardinality(InFlight) < MaxInFlight
  /\ \E r \in bodies :
       /\ req' = [req EXCEPT ![p] = r]
       /\ IF r.key = <<>>
            THEN /\ pc' = [pc EXCEPT ![p] = "done"]
                 /\ resp' = [resp EXCEPT ![p] =
                               ErrorResponse(400, "Missing evmPrivateKey in request")]
                 /\ UNCHANGED from_address
            ELSE IF Lower(r.chain) \notin DOMAIN CHAINS
            THEN /\ pc' = [pc EXCEPT ![p] = "done"]
                 /\ resp' = [resp EXCEPT ![p] = ErrorResponse(400, "Unsupported chain")]
                 /\ UNCHANGED from_address
            ELSE IF derive_evm_address(r.key) = <<>>
            THEN /\ pc' = [pc EXCEPT ![p] = "done"]
                 /\ resp' = [resp EXCEPT ![p] = ErrorResponse(500, "InvalidKey")]
                 /\ UNCHANGED from_address
            ELSE /\ pc' = [pc EXCEPT ![p] = "allocate"]
                 /\ from_address' = [from_address EXCEPT ![p] = derive_evm_address(r.key)[1]]
                 /\ UNCHANGED resp
  /\ UNCHANGED <<now, evm_nonces, evm_pending_txs, nonce, path, snap, tx_start,
                 tx, tx_hash, steps, fresh_log, reply>>

Submit(p) == SubmitFrom(p, Requests)

\* --------------------------------------------------------- allocate_nonce
\* (mutation) the WHERE clause lacks chain_id = %s
StuckRowsAnyChain(tbl, cid, addr, t) ==
  { i \in DOMAIN tbl : /\ tbl[i].from_address = addr
                       /\ tbl[i].status = "submitted"
                       /\ tbl[i].submitted_at < t - StuckMinutes }

\* (mutation) the staleness comparison is the wrong way round
StuckRowsFlipped(tbl, cid, addr, t) ==
  { i \in DOMAIN tbl : /\ tbl[i].chain_id = cid
                       /\ tbl[i].from_address = addr
                       /\ tbl[i].status = "submitted"
                       /\ tbl[i].submitted_at > t - StuckMinutes }

\* (mutation) a row exactly 5 minutes old counts as stuck
StuckRowsInclusive(tbl, cid, addr, t) ==
  { i \in DOMAIN tbl : /\ tbl[i].chain_id = cid
                       /\ tbl[i].from_address = addr
                       /\ tbl[i].status = "submitted"
                       /\ tbl[i].submitted_at <= t - StuckMinutes }

\* rows of the stuck query's WHERE clause, evaluated at time t
StuckRows(tbl, cid, addr, t) ==
  { i \in DOMAIN tbl : /\ tbl[i].chain_id = cid
                       /\ tbl[i].from_address = addr
                       /\ tbl[i].status = "submitted"
                       /\ tbl[i].submitted_at < t - StuckMinutes }

\* (mutation) ORDER BY submitted_at ASC LIMIT 1
SelectStuckOldest(tbl, cid, addr, t) ==
  LET S == StuckRows(tbl, cid, addr, t)
  IN  { i \in S : \A j \in S : tbl[i].submitted_at <= tbl[j].submitted_at }

\* ORDER BY nonce ASC LIMIT 1: the rows fetchone() may return
SelectStuck(tbl, cid, addr, t) ==
  LET S == StuckRows(tbl, cid, addr, t)
  IN  { i \in S : \A j \in S : tbl[i].nonce <= tbl[j].nonce }

\* (mutation) ON CONFLICT DO UPDATE without the increment
UpsertNonceNoIncrement(tbl, a) ==
  IF a \in DOMAIN tbl THEN tbl ELSE (a :> 0) @@ tbl

\* (mutation) the first row is inserted with nonce 1
UpsertNonceFromOne(tbl, a) ==
  IF a \in DOMAIN tbl THEN [tbl EXCEPT ![a] = @ + 1] ELSE (a :> 1) @@ tbl

\* INSERT ... VALUES (.., 0, ..) ON CONFLICT DO UPDATE SET nonce = nonce + 1
UpsertNonce(tbl, a) ==
  IF a \in DOMAIN tbl THEN [tbl EXCEPT ![a] = @ + 1] ELSE (a :> 0) @@ tbl

LogFresh(log, a, n) ==
  IF a \in DOMAIN log THEN [log EXCEPT ![a] = Append(@, n)] ELSE (a :> <<n>>) @@ log

\* the stuck query; with a stuck row allocate_nonce returns its nonce at once
AllocSelect(p) ==
  /\ pc[p] = "allocate"
  /\ LET hit == SelectStuck(evm_pending_txs, ChainId(p), from_address[p], now)
     IN  IF hit # {}
           THEN /\ \E i \in hit : nonce' = [nonce EXCEPT ![p] = evm_pending_txs[i].nonce]
                /\ path' = [path EXCEPT ![p] = "reuse"]
                /\ Return(p, "allocate")
           ELSE /\ pc' = [pc EXCEPT ![p] = "upsert"]
                /\ UNCHANGED <<nonce, path, steps>>
  /\ UNCHANGED <<now, evm_nonces, evm_pending_txs, req, from_address, snap,
                 tx_start, tx, tx_hash, resp, fresh_log, reply>>

\* the upsert, RETURNING nonce, and the commit. The row lock the upsert takes
\* is held until the commit, so no other upsert of the account runs in between.
AllocUpsert(p) ==
  /\ pc[p] = "upsert"
  /\ evm_nonces' = UpsertNonce(evm_nonces, AccountOf(p))
  /\ nonce' = [nonce EXCEPT ![p] = evm_nonces'[AccountOf(p)]]
  /\ path' = [path EXCEPT ![p] = "fresh"]
  /\ fresh_log' = LogFresh(fresh_log, AccountOf(p), evm_nonces'[AccountOf(p)])
  /\ Return(p, "allocate")
  /\ UNCHANGED <<now, evm_pending_txs, req, from_address, snap, tx_start, tx,
                 tx_hash, resp, reply>>

\* the database is unreachable or a statement fails: the transaction rolls back
AllocFail(p) ==
  /\ pc[p] \in {"allocate", "upsert"}
  /\ Raise(p, "allocate", "AllocationUnavailable")
  /\ UNCHANGED <<now, evm_nonces, evm_pending_txs, req, from_address, nonce, path,
                 snap, tx_start, tx, tx_hash, fresh_log, reply>>

\* -------------------------------------------------------- build_transaction
\* an amount of m * 10^e smallest units (m carries no factor of ten)
RECURSIVE Wei(_, _)
Wei(m, e) ==
  IF m = 0 THEN [m |-> 0, e |-> 0]
  ELSE IF m % 10 = 0 THEN Wei(m \div 10, e + 1)
  ELSE [m |-> m, e |-> e]

DigitVal(c) ==
  CASE c = "0" -> 0 [] c = "1" -> 1 [] c = "2" -> 2 [] c = "3" -> 3 [] c = "4" -> 4
    [] c = "5" -> 5 [] c = "6" -> 6 [] c = "7" -> 7 [] c = "8" -> 8 [] c = "9" -> 9

\* int() of a string of digits
RECURSIVE IntOf(_)
IntOf(ds) ==
  IF ds = <<>> THEN 0
  ELSE IntOf(SubSeq(ds, 1, Len(ds) - 1)) * 10 + DigitVal(ds[Len(ds)])

\* Decimal(amount): the digits as an integer and the number of fraction digits
Decimal(amount) ==
  LET IsDigit(c) == c # "."
      dots       == { i \in DOMAIN amount : amount[i] = "." }
  IN  [digits |-> IntOf(SelectSeq(amount, IsDigit)),
       scale  |-> IF dots = {} THEN 0 ELSE Len(amount) - (CHOOSE i \in dots : TRUE)]

\* the unit 'ether': 10^18 wei
EtherDecimals == 18

\* (mutation) the amount is not scaled by the unit
to_wei_unscaled(d, unit) == Wei(d.digits, 0 - d.scale)

\* w3.to_wei(d, unit): d * 10^unit
to_wei(d, unit) == Wei(d.digits, unit - d.scale)

\* (mutation) a token transfer is addressed to the recipient
build_transaction_to_recipient(chain, from_addr, to_addr, amount, token, n) ==
  LET cfg == CHAINS[Lower(chain)]
  IN  IF Upper(token) = "ETH"
        THEN <<[from |-> from_addr, to |-> to_addr,
                value |-> to_wei(Decimal(amount), EtherDecimals),
                gas |-> 21000, nonce |-> n, chainId |-> cfg.chain_id]>>
        ELSE IF CfgGet(cfg, Lower(token)) = <<>>
        THEN <<>>
        ELSE <<[from |-> from_addr, to |-> to_addr, value |-> Wei(0, 0),
                gas |-> 100000, nonce |-> n, chainId |-> cfg.chain_id]>>

\* the transaction build_transaction returns, or <<>> for an unsupported token
\* (the fields from, to, value, gas, nonce and chainId)
build_transaction(chain, from_addr, to_addr, amount, token, n) ==
  LET cfg == CHAINS[Lower(chain)]
  IN  IF Upper(token) = "ETH"
        THEN <<[from |-> from_addr, to |-> to_addr,
                value |-> to_wei(Decimal(amount), EtherDecimals),
                gas |-> 21000, nonce |-> n, chainId |-> cfg.chain_id]>>
        ELSE IF CfgGet(cfg, Lower(token)) = <<>>
        THEN <<>>
        ELSE <<[from |-> from_addr, to |-> CfgGet(cfg, Lower(token))[1],
                value |-> Wei(0, 0),
                gas |-> 100000, nonce |-> n, chainId |-> cfg.chain_id]>>

Build(p) ==
  /\ pc[p] = "build"
  /\ LET t == build_transaction(req[p].chain, from_address[p], req[p].toAddress,
                                req[p].amount, req[p].token, nonce[p])
     IN  IF t = <<>>
           THEN /\ Raise(p, "build", "Token not supported")
                /\ UNCHANGED tx
           ELSE /\ Return(p, "build")
                /\ tx' = [tx EXCEPT ![p] = t]
                /\ UNCHANGED resp
  /\ UNCHANGED <<now, evm_nonces, evm_pending_txs, req, from_address, nonce, path,
                 snap, tx_start, tx_hash, fresh_log, reply>>

\* the RPC call for the gas price (or the token's decimals) fails
BuildRpcFail(p) ==
  /\ pc[p] = "build"
  /\ Raise(p, "build", "RPC unavailable")
  /\ UNCHANGED <<now, evm_nonces, evm_pending_txs, req, from_address, nonce, path,
                 snap, tx_start, tx, tx_hash, fresh_log, reply>>

\* w3.eth.contract(address=token_addr, ..) is handed a configuration value that
\* is no token address (cfg.get found a key other than usdc and usdt): web3 may
\* reject it. Build above is the run in which it does not.
BuildInvalidAddress(p) ==
  /\ pc[p] = "build"
  /\ LET cfg == CHAINS[Lower(req[p].chain)]
         r   == CfgGet(cfg, Lower(req[p].token))
     IN  /\ Upper(req[p].token) # "ETH"
         /\ r # <<>>
         /\ Lower(req[p].token) \notin {"usdc", "usdt"}
  /\ Raise(p, "build", "InvalidAddress")
  /\ UNCHANGED <<now, evm_nonces, evm_pending_txs, req, from_address, nonce, path,
                 snap, tx_start, tx, tx_hash, fresh_log, reply>>

\* ---------------------------------------------------------- sign_transaction
\* sign_transaction(tx, private_key): the raw signed transaction, told by the
\* transaction and the address of the key that signed it; <<>> when from_key
\* raises
sign_transaction(t, private_key) ==
  LET account == FromKey(NormalizeKey(private_key))
  IN  IF account = <<>> THEN <<>> ELSE <<[tx |-> t, signer |-> account[1]]>>

\* the handler's local signed_tx, once sign_transaction has returned
signed_tx(p) == sign_transaction(tx[p][1], req[p].key)

Sign(p) ==
  /\ pc[p] = "sign"
  /\ signed_tx(p) # <<>>
  /\ Return(p, "sign")
  /\ UNCHANGED <<now, evm_nonces, evm_pending_txs, req, from_address, nonce, path,
                 snap, tx_start, tx, tx_hash, resp, fresh_log, reply>>

\* account.sign_transaction rejects the transaction
SignFail(p) ==
  /\ pc[p] = "sign"
  /\ Raise(p, "sign", "SigningFailed")
  /\ UNCHANGED <<now, evm_nonces, evm_pending_txs, req, from_address, nonce, path,
                 snap, tx_start, tx, tx_hash, fresh_log, reply>>

\* -------------------------------------------------------------- broadcast_tx
\* the hash the RPC returns for the transaction request p sent
TxHash(p) == <<"tx", p>>

Broadcast(p) ==
  /\ pc[p] = "broadcast"
  /\ tx_hash' = [tx_hash EXCEPT ![p] = TxHash(p)]
  /\ Return(p, "broadcast")
  /\ UNCHANGED <<now, evm_nonces, evm_pending_txs, req, from_address, nonce, path,
                 snap, tx_start, tx, resp, fresh_log, reply>>

\* the RPC rejects the transaction
BroadcastFail(p) ==
  /\ pc[p] = "broadcast"
  /\ Raise(p, "broadcast", "BroadcastRejected")
  /\ UNCHANGED <<now, evm_nonces, evm_pending_txs, req, from_address, nonce, path,
                 snap, tx_start, tx, tx_hash, fresh_log, reply>>

\* ------------------------------------------------------------- track_pending
\* (mutation) the connection is switched to autocommit
AutocommitOn == TRUE

\* psycopg2 connections do not autocommit: writes wait for conn.commit()
Autocommit == FALSE

\* (mutation) the WHERE clause lacks AND nonce = %s
MatchSubmittedAnyNonce(tbl, cid, addr, n) ==
  { i \in DOMAIN tbl : /\ tbl[i].chain_id = cid
                       /\ tbl[i].from_address = addr
                       /\ tbl[i].status = "submitted" }

\* (mutation) the WHERE clause lacks AND status = 'submitted'
MatchSubmittedAnyStatus(tbl, cid, addr, n) ==
  { i \in DOMAIN tbl : /\ tbl[i].chain_id = cid
                       /\ tbl[i].from_address = addr
                       /\ tbl[i].nonce = n }

\* rows of the UPDATE's WHERE clause
MatchSubmitted(tbl, cid, addr, n) ==
  { i \in DOMAIN tbl : /\ tbl[i].chain_id = cid
                       /\ tbl[i].from_address = addr
                       /\ tbl[i].nonce = n
                       /\ tbl[i].status = "submitted" }

\* (mutation) the UPDATE sets the status only
MarkReplacedNoLink(tbl, ids, h) ==
  [ i \in DOMAIN tbl |->
      IF i \in ids THEN [tbl[i] EXCEPT !.status = "replaced"] ELSE tbl[i] ]

\* SET status = 'replaced', replaced_by_tx_hash = h on the rows ids
MarkReplaced(tbl, ids, h) ==
  [ i \in DOMAIN tbl |->
      IF i \in ids THEN [tbl[i] EXCEPT !.status = "replaced", !.replaced_by_tx_hash = h]
      ELSE tbl[i] ]

\* (mutation) the INSERT stores the nonce that follows
NewRowNextNonce(cid, n, addr, h, t) ==
  [chain_id |-> cid, nonce |-> n + 1, from_address |-> addr, tx_hash |-> h,
   status |-> "submitted", replaced_by_tx_hash |-> NULL, submitted_at |-> t]

\* VALUES (.., 'submitted', .., NOW()); NOW() is the transaction's start time
NewRow(cid, n, addr, h, t) ==
  [chain_id |-> cid, nonce |-> n, from_address |-> addr, tx_hash |-> h,
   status |-> "submitted", replaced_by_tx_hash |-> NULL, submitted_at |-> t]

\* The UPDATE reads the rows committed when it starts (snap). A row of snap
\* that a concurrent track_pending holds locked makes the UPDATE wait for that
\* transaction's end and then re-check the row's status; rows committed after
\* the UPDATE began are not seen. The locks an UPDATE takes are released by the
\* commit that follows, so taking them is modelled in the commit step: an
\* UPDATE that locked earlier only makes the others wait until that step.
\*
\* the UPDATE starts: it opens the transaction and reads the committed rows
TrackUpdate(p) ==
  /\ pc[p] = "track"
  /\ snap' = [snap EXCEPT ![p] =
                MatchSubmitted(evm_pending_txs, ChainId(p), from_address[p], nonce[p])]
  /\ tx_start' = [tx_start EXCEPT ![p] = now]
  /\ evm_pending_txs' = IF Autocommit
                          THEN MarkReplaced(evm_pending_txs, snap'[p], tx_hash[p])
                          ELSE evm_pending_txs
  /\ pc' = [pc EXCEPT ![p] = "insert"]
  /\ UNCHANGED <<now, evm_nonces, req, from_address, nonce, path, tx, tx_hash,
                 resp, steps, fresh_log, reply>>

\* the UPDATE locks the rows it read and changes those that still match, the
\* INSERT adds the new row, conn.commit() publishes both; then the 200 answer
TrackInsert(p) ==
  /\ pc[p] = "insert"
  /\ evm_pending_txs' =
       Append(MarkReplaced(evm_pending_txs,
                           snap[p] \cap MatchSubmitted(evm_pending_txs, ChainId(p),
                                                       from_address[p], nonce[p]),
                           tx_hash[p]),
              NewRow(ChainId(p), nonce[p], from_address[p], tx_hash[p], tx_start[p]))
  /\ Return(p, "track")
  /\ resp' = [resp EXCEPT ![p] = SuccessResponse(tx_hash[p], nonce[p])]
  /\ snap' = [snap EXCEPT ![p] = {}]
  /\ tx_start' = [tx_start EXCEPT ![p] = 0]
  /\ UNCHANGED <<now, evm_nonces, req, from_address, nonce, path, tx, tx_hash,
                 fresh_log, reply>>

\* the database is unreachable or a statement fails: conn.close() without a
\* commit rolls the transaction back
TrackFail(p) ==
  /\ pc[p] \in {"track", "insert"}
  /\ Raise(p, "track", "LedgerUnavailable")
  /\ snap' = [snap EXCEPT ![p] = {}]
  /\ tx_start' = [tx_start EXCEPT ![p] = 0]
  /\ UNCHANGED <<now, evm_nonces, evm_pending_txs, req, from_address, nonce, path,
                 tx, tx_hash, fresh_log, reply>>

\* ------------------------------------------------------- the GET endpoints
\* the chain arguments of GET /status
StatusChains == {"base", "BASE", "solana"}

\* what w3.eth.get_transaction_receipt gives: a receipt, or <<>> when it raises
\* (no receipt for the hash, or the RPC is unreachable)
Receipts ==
  { <<>>, <<[status |-> 1, blockNumber |-> 1]>>, <<[status |-> 0, blockNumber |-> 1]>> }

\* what w3.eth.block_number gives: a height, or <<>> when the RPC call raises
BlockNumbers == { <<>>, <<2>> }

Reply(endpoint, code, status, error, body) ==
  [endpoint |-> endpoint, code |-> code, status |-> status, error |-> error, body |-> body]

\* an answer together with the arguments of the request it answers
Asked(query, answer) == [query |-> query] @@ answer

\* the answer of get_status for a chain argument, a receipt and a block height
get_status(chain, receipt, block_number) ==
  IF Lower(chain) \notin DOMAIN CHAINS
    THEN Reply("status", 500, "", "KeyError", {})
    ELSE IF receipt = <<>> \/ block_number = <<>>
    THEN Reply("status", 200, "pending", "", {})
    ELSE Reply("status", 200, IF receipt[1].status = 1 THEN "confirmed" ELSE "failed",
               "", {})

\* (mutation) get_status stores a confirmation it finds in the ledger
GetStatusStores(chains, receipts, block_numbers) ==
  /\ \E chain \in chains, receipt \in receipts, block_number \in block_numbers :
       reply' = Asked(<<chain, receipt, block_number>>,
                      get_status(chain, receipt, block_number))
  /\ evm_pending_txs' =
       IF reply'.status = "confirmed"
         THEN [ i \in DOMAIN evm_pending_txs |->
                  [evm_pending_txs[i] EXCEPT !.status = "confirmed"] ]
         ELSE evm_pending_txs
  /\ UNCHANGED <<now, evm_nonces, pc, req, from_address, nonce, path,
                 snap, tx_start, tx, tx_hash, resp, steps, fresh_log>>

\* GET /status/<tx_hash>?chain=.., for the chain arguments, receipts and block
\* heights given
GetStatusFrom(chains, receipts, block_numbers) ==
  /\ \E chain \in chains, receipt \in receipts, block_number \in block_numbers :
       reply' = Asked(<<chain, receipt, block_number>>,
                      get_status(chain, receipt, block_number))
  /\ UNCHANGED <<now, evm_nonces, evm_pending_txs, pc, req, from_address, nonce, path,
                 snap, tx_start, tx, tx_hash, resp, steps, fresh_log>>

GetStatus == GetStatusFrom(StatusChains, Receipts, BlockNumbers)

\* GET /health: a connection is opened and closed; db_ok is whether that works
Health ==
  /\ \E db_ok \in BOOLEAN :
       reply' = Asked(<<db_ok>>,
                      Reply("health", 200, IF db_ok THEN "healthy" ELSE "degraded", "",
                            DOMAIN CHAINS))
  /\ UNCHANGED <<now, evm_nonces, evm_pending_txs, pc, req, from_address, nonce, path,
                 snap, tx_start, tx, tx_hash, resp, steps, fresh_log>>

\* GET /chains
ListChains ==
  /\ reply' = Asked(<<>>, Reply("chains", 200, "", "", DOMAIN CHAINS))
  /\ UNCHANGED <<now, evm_nonces, evm_pending_txs, pc, req, from_address, nonce, path,
                 snap, tx_start, tx, tx_hash, resp, steps, fresh_log>>

\* the token symbols of all chains (the answer lists them sorted)
list_tokens ==
  UNION { {"ETH"} \cup { Upper(k) : k \in DOMAIN CHAINS[c] \cap {"usdc", "usdt"} } :
          c \in DOMAIN CHAINS }

\* GET /tokens
ListTokens ==
  /\ reply' = Asked(<<>>, Reply("tokens", 200, "", "", list_tokens))
  /\ UNCHANGED <<now, evm_nonces, evm_pending_txs, pc, req, from_address, nonce, path,
                 snap, tx_start, tx, tx_hash, resp, steps, fresh_log>>

\* ------------------------------------------------------------------ the log
\* str(v): the text an f-string puts into a log line for the value v
Str(v) == ToString(v)

\* (mutation) the Transfer line also names the key
TransferLineWithKey(r) ==
  <<"Transfer", Str(r.toAddress), Str(r.amount), Str(r.token), Str(r.chain), Str(r.key)>>

\* logger.info(f"Transfer: {username} -> {to_address}, {amount} {token} on {chain}")
TransferLine(r) ==
  <<"Transfer", Str(r.toAddress), Str(r.amount), Str(r.token), Str(r.chain)>>

\* the lines the handler of request p has written to the log so far. Written
\* once the key was found present: the Transfer line; after allocate_nonce: the
\* Reusing line (reuse path) and the Allocated line; after broadcast_tx: the
\* Broadcast line; in track_pending after the UPDATE: the Marked line (its row
\* count is a number); in the except clause: the Transfer failed line with str(e).
LogLines(p) ==
  (IF pc[p] # "idle" /\ req[p].key # <<>> THEN {TransferLine(req[p])} ELSE {})
  \cup (IF path[p] = "reuse" THEN {<<"Reusing stuck nonce", Str(nonce[p])>>} ELSE {})
  \cup (IF path[p] # "none" THEN {<<"Allocated nonce", Str(nonce[p])>>} ELSE {})
  \cup (IF tx_hash[p] # NULL THEN {<<"Broadcast", Str(tx_hash[p])>>} ELSE {})
  \cup (IF pc[p] = "insert" \/ \E k \in DOMAIN steps[p] : steps[p][k].call = "track"
          THEN {<<"Marked replaced by", Str(tx_hash[p])>>} ELSE {})
  \cup (IF resp[p].code = 500 THEN {<<"Transfer failed", Str(resp[p].error)>>} ELSE {})

\* ------------------------------------------------------------------- clock
Tick ==
  /\ now < MaxTime
  /\ now' = now + 1
  /\ UNCHANGED <<evm_nonces, evm_pending_txs, pc, req, from_address, nonce, path,
                 snap, tx_start, tx, tx_hash, resp, steps, fresh_log, reply>>

Next ==
  \/ Tick
  \/ \E p \in Reqs :
       \/ Submit(p)
       \/ AllocSelect(p)
       \/ AllocUpsert(p)
       \/ AllocFail(p)
       \/ Build(p)
       \/ BuildRpcFail(p)
       \/ Sign(p)
       \/ SignFail(p)
       \/ Broadcast(p)
       \/ BroadcastFail(p)
       \/ TrackUpdate(p)
       \/ TrackInsert(p)
       \/ TrackFail(p)

Spec == Init /\ [][Next]_vars

\* the service taking transfers for two accounts
NextMulti ==
  \/ Tick
  \/ \E p \in Reqs :
       \/ SubmitFrom(p, MultiRequests)
       \/ AllocSelect(p)
       \/ AllocUpsert(p)
       \/ AllocFail(p)
       \/ Build(p)
       \/ BuildRpcFail(p)
       \/ Sign(p)
       \/ SignFail(p)
       \/ Broadcast(p)
       \/ BroadcastFail(p)
       \/ TrackUpdate(p)
       \/ TrackInsert(p)
       \/ TrackFail(p)

SpecMulti == Init /\ [][NextMulti]_vars

\* the status queries made while transfers are taken: chain base, node up
ReadChains == {"base"}
ReadBlockNumbers == { <<2>> }

\* the service, its database and the RPC nodes up, taking transfers while the
\* GET endpoints are queried
NextReads ==
  \/ Tick
  \/ GetStatusFrom(ReadChains, Receipts, ReadBlockNumbers)
  \/ Health
  \/ ListChains
  \/ ListTokens
  \/ \E p \in Reqs :
       \/ SubmitFrom(p, ReadRequests)
       \/ AllocSelect(p)
       \/ AllocUpsert(p)
       \/ Build(p)
       \/ Sign(p)
       \/ Broadcast(p)
       \/ TrackUpdate(p)
       \/ TrackInsert(p)

SpecReads == Init /\ [][NextReads]_vars

\* build_transaction on its own: the first request has passed validation and
\* holds the fresh nonce n of its account, whose counter earlier requests have
\* brought to n; its chain, token and amount are any of BuildRequests
InitBuild ==
  \E r \in BuildRequests, n \in 0..(NumReq - 1) :
    LET a == Account(CHAINS[Lower(r.chain)].chain_id, derive_evm_address(r.key)[1])
    IN  /\ now = 0
        /\ evm_nonces = (a :> n)
        /\ evm_pending_txs = <<>>
        /\ pc = [p \in Reqs |-> IF p = 1 THEN "build" ELSE "idle"]
        /\ req = [p \in Reqs |-> IF p = 1 THEN r ELSE NoRequest]
        /\ from_address = [p \in Reqs |-> IF p = 1 THEN a.from_address ELSE ""]
        /\ nonce = [p \in Reqs |-> IF p = 1 THEN n ELSE -1]
        /\ path = [p \in Reqs |-> IF p = 1 THEN "fresh" ELSE "none"]
        /\ snap = [p \in Reqs |-> {}]
        /\ tx_start = [p \in Reqs |-> 0]
        /\ tx = [p \in Reqs |-> NULL]
        /\ tx_hash = [p \in Reqs |-> NULL]
        /\ resp = [p \in Reqs |-> NoResp]
        /\ steps = [p \in Reqs |->
                      IF p = 1 THEN <<[call |-> "allocate", out |-> "ok"]>> ELSE <<>>]
        /\ fresh_log = (a :> [i \in 1..(n + 1) |-> i - 1])
        /\ reply = NoReply

NextBuild ==
  \/ Tick
  \/ \E p \in Reqs :
       \/ Build(p)
       \/ BuildRpcFail(p)
       \/ BuildInvalidAddress(p)

SpecBuild == InitBuild /\ [][NextBuild]_vars

\* the receipt of a mined, successful transaction
MinedReceipts == { <<[status |-> 1, blockNumber |-> 1]>> }

\* transfers and status queries that spell chain names in several ways, all
\* within one minute
NextCase ==
  \/ GetStatusFrom(StatusChains, MinedReceipts, ReadBlockNumbers)
  \/ \E p \in Reqs :
       \/ SubmitFrom(p, CaseRequests)
       \/ AllocSelect(p)
       \/ AllocUpsert(p)
       \/ Build(p)
       \/ Sign(p)
       \/ Broadcast(p)
       \/ TrackUpdate(p)
       \/ TrackInsert(p)

SpecCase == Init /\ [][NextCase]_vars

\* transfers whose keys are written in several ways, all within one minute
NextDerive ==
  \E p \in Reqs :
    \/ SubmitFrom(p, KeyRequests)
    \/ AllocSelect(p)
    \/ AllocUpsert(p)
    \/ Build(p)
    \/ Sign(p)
    \/ Broadcast(p)
    \/ TrackUpdate(p)
    \/ TrackInsert(p)

SpecDerive == Init /\ [][NextDerive]_vars

\* The service with a backlog: two earlier transfers of the account took the
\* fresh nonces 0 and 1 and were recorded out of order, nonce 1 at minute 0 and
\* nonce 0 at minute 1; neither has confirmed. old0 and old1 are their hashes.
InitStuck ==
  LET r == CHOOSE b \in ReadRequests : TRUE
      a == Account(CHAINS[Lower(r.chain)].chain_id, derive_evm_address(r.key)[1])
  IN  /\ now = 1
      /\ evm_nonces = (a :> 1)
      /\ evm_pending_txs =
           << NewRow(a.chain_id, 1, a.from_address, <<"old", 1>>, 0),
              NewRow(a.chain_id, 0, a.from_address, <<"old", 0>>, 1) >>
      /\ pc = [p \in Reqs |-> "idle"]
      /\ req = [p \in Reqs |-> NoRequest]
      /\ from_address = [p \in Reqs |-> ""]
      /\ nonce = [p \in Reqs |-> -1]
      /\ path = [p \in Reqs |-> "none"]
      /\ snap = [p \in Reqs |-> {}]
      /\ tx_start = [p \in Reqs |-> 0]
      /\ tx = [p \in Reqs |-> NULL]
      /\ tx_hash = [p \in Reqs |-> NULL]
      /\ resp = [p \in Reqs |-> NoResp]
      /\ steps = [p \in Reqs |-> <<>>]
      /\ fresh_log = (a :> <<0, 1>>)
      /\ reply = NoReply

NextStuck ==
  \/ Tick
  \/ \E p \in Reqs :
       \/ SubmitFrom(p, ReadRequests)
       \/ AllocSelect(p)
       \/ AllocUpsert(p)
       \/ AllocFail(p)
       \/ Build(p)
       \/ BuildRpcFail(p)
       \/ Sign(p)
       \/ SignFail(p)
       \/ Broadcast(p)
       \/ BroadcastFail(p)
       \/ TrackUpdate(p)
       \/ TrackInsert(p)
       \/ TrackFail(p)

SpecStuck == InitStuck /\ [][NextStuck]_vars

\* --------------------------------------------- recovery without an end
\* The service runs without an end: requests keep arriving and time keeps
\* passing. The tables start with two unconfirmed rows of one account, both
\* older than the stuck threshold, and nothing confirms a row.
MaxNonce == 2      \* highest counter value at which requests are still accepted

\* the oldest timestamp told apart: anything older is just as stuck
Floor == now - StuckMinutes - 1

Oldest(t) == IF t < Floor + 1 THEN Floor ELSE t - 1

InitRecover ==
  LET r == CHOOSE b \in ReadRequests : TRUE
      a == Account(CHAINS[Lower(r.chain)].chain_id, derive_evm_address(r.key)[1])
  IN  /\ now = 0
      /\ evm_nonces = (a :> 1)
      /\ evm_pending_txs =
           << NewRow(a.chain_id, 0, a.from_address, <<"old", 0>>, Floor),
              NewRow(a.chain_id, 1, a.from_address, <<"old", 1>>, Floor) >>
      /\ pc = [p \in Reqs |-> "idle"]
      /\ req = [p \in Reqs |-> NoRequest]
      /\ from_address = [p \in Reqs |-> ""]
      /\ nonce = [p \in Reqs |-> -1]
      /\ path = [p \in Reqs |-> "none"]
      /\ snap = [p \in Reqs |-> {}]
      /\ tx_start = [p \in Reqs |-> 0]
      /\ tx = [p \in Reqs |-> NULL]
      /\ tx_hash = [p \in Reqs |-> NULL]
      /\ resp = [p \in Reqs |-> NoResp]
      /\ steps = [p \in Reqs |-> <<>>]
      /\ fresh_log = (a :> <<0, 1>>)
      /\ reply = NoReply

\* A minute passes. Timestamps are held relative to NOW(): instead of moving
\* the clock forward every stored timestamp moves one minute back, down to
\* Floor (the WHERE clause "submitted_at < NOW() - 5 minutes" cannot tell
\* older timestamps apart).
Elapse ==
  /\ evm_pending_txs' = [ i \in DOMAIN evm_pending_txs |->
                            [evm_pending_txs[i] EXCEPT !.submitted_at = Oldest(@)] ]
  /\ tx_start' = [ p \in Reqs |-> IF pc[p] = "insert" THEN Oldest(tx_start[p])
                                  ELSE tx_start[p] ]
  /\ UNCHANGED <<now, evm_nonces, pc, req, from_address, nonce, path, snap, tx,
                 tx_hash, resp, steps, fresh_log, reply>>

\* the answer of a request has been sent: its handler's locals are gone and
\* the worker takes the next request
Close(p) ==
  /\ pc[p] = "done"
  /\ pc' = [pc EXCEPT ![p] = "idle"]
  /\ req' = [req EXCEPT ![p] = NoRequest]
  /\ from_address' = [from_address EXCEPT ![p] = ""]
  /\ nonce' = [nonce EXCEPT ![p] = -1]
  /\ path' = [path EXCEPT ![p] = "none"]
  /\ tx' = [tx EXCEPT ![p] = NULL]
  /\ tx_hash' = [tx_hash EXCEPT ![p] = NULL]
  /\ resp' = [resp EXCEPT ![p] = NoResp]
  /\ steps' = [steps EXCEPT ![p] = <<>>]
  /\ UNCHANGED <<now, evm_nonces, evm_pending_txs, snap, tx_start, fresh_log, reply>>

\* Rows whose status is no longer 'submitted' match no WHERE clause of the
\* service (the stuck query and the UPDATE both ask for status = 'submitted');
\* they are left out of the table's model while no UPDATE holds row references.
Archive ==
  /\ \A p \in Reqs : pc[p] # "insert"
  /\ \E i \in DOMAIN evm_pending_txs : evm_pending_txs[i].status # "submitted"
  /\ evm_pending_txs' = SelectSeq(evm_pending_txs, LAMBDA row : row.status = "submitted")
  /\ UNCHANGED <<now, evm_nonces, pc, req, from_address, nonce, path, snap, tx_start,
                 tx, tx_hash, resp, steps, fresh_log, reply>>

\* a transfer of the account is requested, once the one before is answered
\* and closed
SubmitMore(p) ==
  /\ \A q \in Reqs : pc[q] = "idle"
  /\ \A i \in DOMAIN evm_pending_txs : evm_pending_txs[i].status = "submitted"
  /\ \A a \in DOMAIN evm_nonces : evm_nonces[a] < MaxNonce
  /\ SubmitFrom(p, ReadRequests)

\* one step of a handler; every call succeeds
HandlerStep(p) ==
  \/ AllocSelect(p)
  \/ AllocUpsert(p)
  \/ Build(p)
  \/ Sign(p)
  \/ Broadcast(p)
  \/ TrackUpdate(p)
  \/ TrackInsert(p)

NextRecover ==
  \/ Elapse
  \/ Archive
  \/ \E p \in Reqs :
       \/ SubmitMore(p)
       \/ HandlerStep(p)
       \/ Close(p)

\* Flask runs every handler to its return, and time passes
SpecRecover ==
  /\ InitRecover
  /\ [][NextRecover]_vars
  /\ WF_vars(Elapse)
  /\ WF_vars(Archive)
  /\ \A p \in Reqs : WF_vars(HandlerStep(p)) /\ WF_vars(Close(p))

\* the GET endpoints on their own, over all their arguments
NextStatus ==
  \/ Tick
  \/ GetStatus
  \/ Health
  \/ ListChains
  \/ ListTokens

SpecStatus == Init /\ [][NextStatus]_vars

\* ======================================================================
\* Properties
\* ======================================================================
Allocated(p) == path[p] # "none"
Key(r) == <<r.chain_id, r.from_address, r.nonce>>
KeyOf(p) == <<ChainId(p), from_address[p], nonce[p]>>
LastStep(p) == steps[p][Len(steps[p])]

\* rows of p's account that are stuck now: status submitted, older than 5 minutes
StuckNow(p) ==
  { i \in DOMAIN evm_pending_txs :
      /\ evm_pending_txs[i].chain_id = ChainId(p)
      /\ evm_pending_txs[i].from_address = from_address[p]
      /\ evm_pending_txs[i].status = "submitted"
      /\ now - evm_pending_txs[i].submitted_at > StuckMinutes }

\* p's allocate_nonce runs its stuck query in this step and does not fail
SelectStep(p) == pc[p] = "allocate" /\ pc'[p] \in {"upsert", "build"}

\* p's track_pending commits in this step
CommitStep(p) == pc[p] = "insert" /\ Len(evm_pending_txs') > Len(evm_pending_txs)

\* ---------------------------------------------------------------- C1
\* C1: two allocate calls on the same (chain_id, from_address) return the
\* same nonce only if at least one of them returned it through the reuse
\* path; allocations that all took the fresh path return distinct nonces.
C1_DistinctNonces ==
  \A p, q \in Reqs :
    (p # q /\ Allocated(p) /\ Allocated(q) /\ AccountOf(p) = AccountOf(q)
       /\ nonce[p] = nonce[q])
    => (path[p] = "reuse" \/ path[q] = "reuse")

\* two requests in flight at once, both holding a fresh nonce of one account
C1_Witness ==
  \E p, q \in Reqs :
    /\ p # q /\ pc[p] = "build" /\ pc[q] = "build"
    /\ path[p] = "fresh" /\ path[q] = "fresh"
    /\ AccountOf(p) = AccountOf(q)

\* ---------------------------------------------------------------- C2
\* C2: in every reachable state the ledger holds at most one row with status
\* submitted for any (chain_id, from_address, nonce).
C2_OneSubmittedPerNonce ==
  \A i, j \in DOMAIN evm_pending_txs :
    (/\ Key(evm_pending_txs[i]) = Key(evm_pending_txs[j])
     /\ evm_pending_txs[i].status = "submitted"
     /\ evm_pending_txs[j].status = "submitted")
    => i = j

\* ---------------------------------------------------------------- C3
\* C3: on an account with no counter row, the allocate calls that take the
\* fresh path return 0, 1, 2, ... in the order they run: the first returns 0
\* and each later one the previous value plus 1.
C3_FreshSequence ==
  \A a \in DOMAIN fresh_log :
    \A i \in 1..Len(fresh_log[a]) : fresh_log[a][i] = i - 1

\* three fresh allocations were made on one account
C3_Witness == \E a \in DOMAIN fresh_log : Len(fresh_log[a]) = 3

\* ---------------------------------------------------------------- C4
\* C4: when the ledger holds a submitted row of the account that is more than
\* 5 minutes old, allocate returns the nonce of such a row through the reuse
\* path and leaves the account's NonceCounter row as it was.
C4_ReuseLeavesCounter ==
  [][ \A p \in Reqs :
        (SelectStep(p) /\ StuckNow(p) # {})
        => /\ pc'[p] = "build"
           /\ path'[p] = "reuse"
           /\ \E i \in StuckNow(p) : nonce'[p] = evm_pending_txs[i].nonce
           /\ evm_nonces' = evm_nonces ]_vars

\* a request came back from allocate with a reused nonce while the counter
\* row of its account exists
C4_Witness ==
  \E p \in Reqs :
    /\ pc[p] = "build" /\ path[p] = "reuse"
    /\ AccountOf(p) \in DOMAIN evm_nonces
    /\ StuckNow(p) # {}

\* ---------------------------------------------------------------- C5
\* C5 as claimed: with several stuck rows allocate returns the nonce of the
\* row with the earliest submitted_at.
C5_Original_OldestRow ==
  [][ \A p \in Reqs :
        (SelectStep(p) /\ StuckNow(p) # {})
        => \E i \in StuckNow(p) :
             /\ \A j \in StuckNow(p) :
                  evm_pending_txs[i].submitted_at <= evm_pending_txs[j].submitted_at
             /\ nonce'[p] = evm_pending_txs[i].nonce ]_vars

\* C5 amended: with several stuck rows allocate returns the lowest nonce any
\* stuck row of the account carries (ORDER BY nonce ASC), and only that one.
C5_LowestStuckNonce ==
  [][ \A p \in Reqs :
        (SelectStep(p) /\ StuckNow(p) # {})
        => /\ \E i \in StuckNow(p) : nonce'[p] = evm_pending_txs[i].nonce
           /\ \A j \in StuckNow(p) : nonce'[p] <= evm_pending_txs[j].nonce ]_vars

\* allocate reused the lower nonce although the row of the higher nonce is older
C5_Witness ==
  \E p \in Reqs :
    /\ pc[p] = "build" /\ path[p] = "reuse"
    /\ \E i, j \in StuckNow(p) :
         /\ evm_pending_txs[i].nonce = nonce[p]
         /\ evm_pending_txs[j].nonce > nonce[p]
         /\ evm_pending_txs[j].submitted_at < evm_pending_txs[i].submitted_at

\* ---------------------------------------------------------------- C6
\* C6: when the record of a broadcast that reused a stuck row's nonce commits,
\* every row that was submitted for that (chain_id, from_address, nonce) is
\* replaced with replaced_by_tx_hash equal to the new hash, and the new row is
\* the only submitted row for it.
C6_ReuseRecord ==
  [][ \A p \in Reqs :
        (CommitStep(p) /\ path[p] = "reuse")
        => /\ \A i \in DOMAIN evm_pending_txs :
                (Key(evm_pending_txs[i]) = KeyOf(p)
                   /\ evm_pending_txs[i].status = "submitted")
                => /\ evm_pending_txs'[i].status = "replaced"
                   /\ evm_pending_txs'[i].replaced_by_tx_hash = tx_hash[p]
           /\ \A i \in DOMAIN evm_pending_txs' :
                (Key(evm_pending_txs'[i]) = KeyOf(p)
                   /\ evm_pending_txs'[i].status = "submitted")
                => evm_pending_txs'[i].tx_hash = tx_hash[p] ]_vars

\* ---------------------------------------------------------------- C7
\* C7: the post-broadcast record is atomic. No state shows a replaced row
\* whose replacing row is absent, a submitted row carries no
\* replaced_by_tx_hash, and a record that failed left no trace of its hash.
C7_AtomicRecord ==
  /\ \A i \in DOMAIN evm_pending_txs :
       IF evm_pending_txs[i].status = "replaced"
         THEN \E j \in DOMAIN evm_pending_txs :
                /\ evm_pending_txs[j].tx_hash = evm_pending_txs[i].replaced_by_tx_hash
                /\ Key(evm_pending_txs[j]) = Key(evm_pending_txs[i])
         ELSE evm_pending_txs[i].replaced_by_tx_hash = NULL
  /\ \A p \in Reqs :
       (steps[p] # <<>> /\ LastStep(p).call = "track" /\ LastStep(p).out # "ok")
       => \A i \in DOMAIN evm_pending_txs :
            /\ evm_pending_txs[i].tx_hash # tx_hash[p]
            /\ evm_pending_txs[i].replaced_by_tx_hash # tx_hash[p]

\* a record of a reused nonce failed and the prior row is still submitted,
\* next to a replaced row of an earlier record
C7_Witness ==
  /\ \E p \in Reqs :
       /\ steps[p] # <<>> /\ LastStep(p).call = "track" /\ LastStep(p).out # "ok"
       /\ path[p] = "reuse"
       /\ \E i \in DOMAIN evm_pending_txs :
            Key(evm_pending_txs[i]) = KeyOf(p) /\ evm_pending_txs[i].status = "submitted"
  /\ \E i \in DOMAIN evm_pending_txs : evm_pending_txs[i].status = "replaced"

\* ---------------------------------------------------------------- C8
\* C8: once a request whose broadcast succeeded has completed, the ledger
\* holds a row carrying its transaction hash.
C8_BroadcastRecorded ==
  \A p \in Reqs :
    (pc[p] = "done" /\ tx_hash[p] # NULL)
    => \E i \in DOMAIN evm_pending_txs : evm_pending_txs[i].tx_hash = tx_hash[p]

\* ---------------------------------------------------------------- C9
\* C9: for each account, every nonce from 0 up to the counter value that no
\* in-flight request holds has at least one ledger row.
C9_NoSkippedNonce ==
  \A a \in DOMAIN evm_nonces :
    \A n \in 0..evm_nonces[a] :
      (\A p \in InFlight : ~(Allocated(p) /\ AccountOf(p) = a /\ nonce[p] = n))
      => \E i \in DOMAIN evm_pending_txs :
           /\ Account(evm_pending_txs[i].chain_id, evm_pending_txs[i].from_address) = a
           /\ evm_pending_txs[i].nonce = n

\* ---------------------------------------------------------------- C10
\* C10: the calls of one request are a prefix of allocate, build, sign,
\* broadcast, record, each made once; only the last call made can have
\* failed, and then the request has ended with a 500 answer carrying the
\* failure's message.
C10_StepsInOrder ==
  \A p \in Reqs :
    /\ Len(steps[p]) <= Len(CallOrder)
    /\ \A i \in 1..Len(steps[p]) :
         /\ steps[p][i].call = CallOrder[i]
         /\ steps[p][i].out # "ok"
            => /\ i = Len(steps[p])
               /\ pc[p] = "done"
               /\ resp[p].code = 500
               /\ resp[p].error = steps[p][i].out

\* requests stopped by a failed build and by a failed broadcast
C10_Witness ==
  /\ \E p \in Reqs : /\ Len(steps[p]) = 2 /\ steps[p][2].out = "Token not supported"
                     /\ pc[p] = "done"
  /\ \E p \in Reqs : /\ Len(steps[p]) = 4 /\ steps[p][4].out = "BroadcastRejected"
                     /\ pc[p] = "done"

\* ---------------------------------------------------------------- C11
\* C11: a request that has ended carries exactly one of two answers: the full
\* success body (tx hash, nonce, status submitted), given only after the
\* broadcast and the commit of its ledger row, or an error with no tx hash;
\* a request that has not ended has answered nothing.
C11_FullSuccessOrError ==
  \A p \in Reqs :
    IF pc[p] = "done"
      THEN \/ /\ resp[p].code = 200 /\ resp[p].error = ""
              /\ resp[p].txHash # NULL /\ resp[p].txHash = tx_hash[p]
              /\ resp[p].nonce = nonce[p] /\ resp[p].status = "submitted"
              /\ Len(steps[p]) = Len(CallOrder)
              /\ \A i \in 1..Len(steps[p]) : steps[p][i].out = "ok"
              /\ \E i \in DOMAIN evm_pending_txs :
                   evm_pending_txs[i].tx_hash = tx_hash[p]
           \/ /\ resp[p].code \in {400, 500} /\ resp[p].error # ""
              /\ resp[p].txHash = NULL /\ resp[p].status # "submitted"
      ELSE resp[p] = NoResp

\* one request answered with the success body, another with an error although
\* its broadcast had succeeded
C11_Witness ==
  /\ \E p \in Reqs : pc[p] = "done" /\ resp[p].code = 200
  /\ \E p \in Reqs : pc[p] = "done" /\ resp[p].code = 500 /\ tx_hash[p] # NULL

\* ---------------------------------------------------------------- C12
\* a fresh allocation for account a completes in this step
FreshStep(a) ==
  \E p \in Reqs : /\ pc[p] = "upsert" /\ pc'[p] = "build" /\ path'[p] = "fresh"
                  /\ AccountOf(p) = a /\ nonce'[p] = evm_nonces'[a]

\* C12: a NonceCounter row is never deleted and its value never decreases; a
\* row appears with value 0 and a value changes by +1, each only in a step
\* that completes a fresh allocation for the account.
C12_CounterMonotone ==
  [][ /\ \A a \in DOMAIN evm_nonces :
           /\ a \in DOMAIN evm_nonces'
           /\ evm_nonces'[a] >= evm_nonces[a]
           /\ evm_nonces'[a] # evm_nonces[a]
              => (evm_nonces'[a] = evm_nonces[a] + 1 /\ FreshStep(a))
      /\ \A a \in DOMAIN evm_nonces' :
           a \notin DOMAIN evm_nonces => (evm_nonces'[a] = 0 /\ FreshStep(a)) ]_vars

\* a counter created by one fresh allocation and incremented by two more
C12_Witness == \E a \in DOMAIN evm_nonces : evm_nonces[a] = 2

\* ---------------------------------------------------------------- C13
\* C13: ledger rows are never deleted; a step changes an existing row only by
\* flipping status submitted to replaced together with setting
\* replaced_by_tx_hash, so a replaced row never changes again.
C13_AppendOnlyLedger ==
  [][ /\ Len(evm_pending_txs') >= Len(evm_pending_txs)
      /\ \A i \in DOMAIN evm_pending_txs :
           \/ evm_pending_txs'[i] = evm_pending_txs[i]
           \/ /\ evm_pending_txs[i].status = "submitted"
              /\ evm_pending_txs'[i].replaced_by_tx_hash # NULL
              /\ evm_pending_txs'[i] =
                   [evm_pending_txs[i] EXCEPT
                      !.status = "replaced",
                      !.replaced_by_tx_hash = evm_pending_txs'[i].replaced_by_tx_hash]
    ]_vars

\* a replaced row lived through two later records of its own nonce
C13_Witness ==
  \E i, j, k \in DOMAIN evm_pending_txs :
    /\ i < j /\ j < k
    /\ evm_pending_txs[i].status = "replaced"
    /\ Key(evm_pending_txs[i]) = Key(evm_pending_txs[j])
    /\ Key(evm_pending_txs[i]) = Key(evm_pending_txs[k])

\* ---------------------------------------------------------------- C14
\* rows a replaced row's replaced_by_tx_hash points at
Replacers(i) ==
  { j \in DOMAIN evm_pending_txs :
      /\ j # i
      /\ evm_pending_txs[j].tx_hash = evm_pending_txs[i].replaced_by_tx_hash
      /\ Key(evm_pending_txs[j]) = Key(evm_pending_txs[i]) }

RECURSIVE ReachesSubmitted(_, _)
\* following the links from row i, never through a row of seen, ends at a
\* submitted row
ReachesSubmitted(i, seen) ==
  \/ evm_pending_txs[i].status = "submitted"
  \/ /\ evm_pending_txs[i].status = "replaced"
     /\ Replacers(i) # {}
     /\ \A j \in Replacers(i) : j \notin seen /\ ReachesSubmitted(j, seen \cup {i})

\* C14: every replaced row's replaced_by_tx_hash is the tx_hash of another row
\* with the same (chain_id, from_address, nonce), and following these links
\* from any replaced row reaches a submitted row without visiting a row twice.
C14_ReplacementChain ==
  \A i \in DOMAIN evm_pending_txs :
    evm_pending_txs[i].status = "replaced" => ReachesSubmitted(i, {i})

\* a replaced row whose link leads to a submitted row
C14_Witness ==
  \E i \in DOMAIN evm_pending_txs :
    /\ evm_pending_txs[i].status = "replaced"
    /\ \E j \in Replacers(i) : evm_pending_txs[j].status = "submitted"

\* ---------------------------------------------------------------- C15
\* requests that hold a nonce of account a from the fresh path
FreshHolders(a) == { p \in Reqs : path[p] = "fresh" /\ AccountOf(p) = a }

\* C15: under every interleaving, the nonces the fresh path has handed out for
\* an account are exactly 0 .. counter, one request per value: n fresh
\* allocations return {0, .., n-1} and leave the counter at n-1.
C15_FreshSerialized ==
  /\ \A a \in DOMAIN evm_nonces :
       /\ { nonce[p] : p \in FreshHolders(a) } = 0..evm_nonces[a]
       /\ Cardinality(FreshHolders(a)) = evm_nonces[a] + 1
  /\ \A p \in Reqs : path[p] = "fresh" => AccountOf(p) \in DOMAIN evm_nonces

\* two allocations ran concurrently on a never-seen account: both requests are
\* still in flight, nothing is recorded, the counter stands at 1
C15_Witness ==
  /\ evm_pending_txs = <<>>
  /\ \E p, q \in InFlight :
       /\ p # q /\ path[p] = "fresh" /\ path[q] = "fresh"
       /\ AccountOf(p) = AccountOf(q) /\ evm_nonces[AccountOf(p)] = 1

\* ---------------------------------------------------------------- C16
\* C16: allocate returns through the reuse path only with the nonce of a row
\* of the account that has status submitted and is strictly more than 5
\* minutes old; when the account has no such row the counter path is taken.
C16_ReuseOnlyStuck ==
  [][ \A p \in Reqs :
        SelectStep(p)
        => IF pc'[p] = "build"
             THEN /\ path'[p] = "reuse"
                  /\ \E i \in DOMAIN evm_pending_txs :
                       /\ evm_pending_txs[i].chain_id = ChainId(p)
                       /\ evm_pending_txs[i].from_address = from_address[p]
                       /\ evm_pending_txs[i].status = "submitted"
                       /\ now - evm_pending_txs[i].submitted_at > StuckMinutes
                       /\ evm_pending_txs[i].nonce = nonce'[p]
             ELSE StuckNow(p) = {} ]_vars

\* the counter path is taken although the account has a replaced row older
\* than 5 minutes and a submitted row that is younger
C16_Witness ==
  \E p \in Reqs :
    /\ pc[p] = "upsert"
    /\ \E i, j \in DOMAIN evm_pending_txs :
         /\ evm_pending_txs[i].from_address = from_address[p]
         /\ evm_pending_txs[i].chain_id = ChainId(p)
         /\ evm_pending_txs[i].status = "replaced"
         /\ now - evm_pending_txs[i].submitted_at > StuckMinutes
         /\ evm_pending_txs[j].from_address = from_address[p]
         /\ evm_pending_txs[j].chain_id = ChainId(p)
         /\ evm_pending_txs[j].status = "submitted"
         /\ now - evm_pending_txs[j].submitted_at <= StuckMinutes

\* ---------------------------------------------------------------- C17
\* the ledger rows and the counter row of account a alone
OwnLedger(a) ==
  LET Mine(r) == Account(r.chain_id, r.from_address) = a
  IN  SelectSeq(evm_pending_txs, Mine)

OwnCounter(a) == [ b \in DOMAIN evm_nonces \cap {a} |-> evm_nonces[b] ]

\* C17: the nonce spaces of two (chain, sender) accounts are independent. An
\* allocation for account a leaves the counter row of every other account and
\* the whole ledger as they were, and what it decides and returns is what the
\* same allocation gives on the rows of a alone: the rows of other accounts
\* have no part in it.
C17_IndependentAccounts ==
  [][ \A p \in Reqs :
        (pc[p] \in {"allocate", "upsert"} /\ pc'[p] \in {"upsert", "build"} \ {pc[p]}) =>
          LET a   == AccountOf(p)
              own == OwnLedger(a)
              hit == SelectStuck(own, a.chain_id, a.from_address, now)
          IN  /\ evm_pending_txs' = evm_pending_txs
              /\ \A b \in DOMAIN evm_nonces :
                    b # a => b \in DOMAIN evm_nonces' /\ evm_nonces'[b] = evm_nonces[b]
              /\ DOMAIN evm_nonces' \subseteq DOMAIN evm_nonces \cup {a}
              /\ (pc[p] = "allocate" /\ pc'[p] = "upsert") => hit = {}
              /\ (pc[p] = "allocate" /\ pc'[p] = "build") =>
                    /\ hit # {}
                    /\ nonce'[p] \in { own[i].nonce : i \in hit }
              /\ pc[p] = "upsert" =>
                    nonce'[p] = UpsertNonce(OwnCounter(a), a)[a]
    ]_vars

\* an account gets the fresh nonce 0 while another account, whose counter has
\* advanced, has a stuck row in the ledger
C17_Witness ==
  \E p \in Reqs :
    /\ pc[p] = "build" /\ path[p] = "fresh" /\ nonce[p] = 0
    /\ \E b \in DOMAIN evm_nonces :
         /\ b # AccountOf(p)
         /\ evm_nonces[b] >= 1
         /\ StuckRows(evm_pending_txs, b.chain_id, b.from_address, now) # {}

\* ---------------------------------------------------------------- C18
\* request p finishes one of the calls in this step
Finishes(p, calls) ==
  /\ Len(steps'[p]) > Len(steps[p])
  /\ steps'[p][Len(steps'[p])].call \in calls

\* C18: only allocate writes NonceCounter and only the record made after the
\* broadcast writes PendingTransaction. A step that changes evm_nonces is the
\* upsert of an allocate call; a step that changes evm_pending_txs is a
\* track_pending call of a request that has broadcast. The build, sign and
\* broadcast calls and the GET endpoints (status, health, chains, tokens)
\* leave both tables as they were, and a GET allocates nothing: no request's
\* nonce, path or position changes with it.
C18_OnlyAllocateAndRecordWrite ==
  [][ /\ evm_nonces' # evm_nonces =>
           \E p \in Reqs : pc[p] = "upsert" /\ Finishes(p, {"allocate"})
      /\ evm_pending_txs' # evm_pending_txs =>
           \E p \in Reqs : /\ pc[p] \in {"track", "insert"}
                           /\ pc'[p] # pc[p]
                           /\ tx_hash[p] = TxHash(p)
      /\ \A p \in Reqs :
           Finishes(p, {"build", "sign", "broadcast"}) =>
             UNCHANGED <<evm_nonces, evm_pending_txs>>
      /\ reply' # reply =>
           /\ reply'.endpoint \in {"status", "health", "chains", "tokens"}
           /\ UNCHANGED <<evm_nonces, evm_pending_txs, fresh_log, pc, nonce, path, steps>>
    ]_vars

\* a status query is answered while a request that holds a nonce is between
\* its build and its record, with both tables written by earlier requests
C18_Witness ==
  /\ reply.endpoint = "status"
  /\ evm_nonces # <<>>
  /\ evm_pending_txs # <<>>
  /\ \E p \in Reqs : pc[p] \in {"sign", "broadcast", "track"}

\* ---------------------------------------------------------------- C19
\* the build_transaction call of p raised "Token ... not supported"
UnsupportedAssetRaised(p) ==
  \E k \in DOMAIN steps[p] :
    steps[p][k].call = "build" /\ steps[p][k].out = "Token not supported"

\* the messages of the downstream failures: ledger, RPC, signing, broadcast
DownstreamFailures ==
  {"AllocationUnavailable", "RPC unavailable", "SigningFailed", "BroadcastRejected",
   "LedgerUnavailable"}

\* C19: submit_transfer answers a missing secret key, an unsupported chain or
\* an unsupported asset with a 4xx code, and a downstream failure (ledger,
\* signing, RPC) with a 5xx code and the failure's message.
C19_ErrorCodes ==
  \A p \in Reqs :
    pc[p] = "done" =>
      /\ req[p].key = <<>> => resp[p].code \in 400..499
      /\ (req[p].key # <<>> /\ Lower(req[p].chain) \notin DOMAIN CHAINS) =>
            resp[p].code \in 400..499
      /\ UnsupportedAssetRaised(p) => resp[p].code \in 400..499
      /\ (steps[p] # <<>> /\ LastStep(p).out \in DownstreamFailures) =>
            /\ resp[p].code \in 500..599
            /\ resp[p].error = LastStep(p).out

\* ---------------------------------------------------------------- C20
\* the symbol is the native currency or a token configured for the chain
SupportedAsset(chain, token) ==
  \/ Upper(token) = "ETH"
  \/ Lower(token) \in {"usdc", "usdt"} \cap DOMAIN CHAINS[Lower(chain)]

\* C20: build fails with UnsupportedAsset ("Token ... not supported") for
\* every symbol that is neither the native currency nor a token configured for
\* the chain, and builds no transaction for it. (A build that stopped at an RPC
\* failure has not looked at the symbol.)
C20_UnsupportedAssetFails ==
  \A p \in Reqs :
    \A k \in DOMAIN steps[p] :
      ( /\ steps[p][k].call = "build"
        /\ steps[p][k].out # "RPC unavailable"
        /\ ~SupportedAsset(req[p].chain, req[p].token) ) =>
          /\ steps[p][k].out = "Token not supported"
          /\ tx[p] = NULL

\* ---------------------------------------------------------------- C21
\* C21: for a supported chain get_status answers pending, with code 200 and
\* no error, whenever there is no receipt for the hash; it answers confirmed
\* when the receipt's status is 1 and failed for any other receipt status.
C21_StatusOfReceipt ==
  (reply.endpoint = "status" /\ Lower(reply.query[1]) \in DOMAIN CHAINS) =>
    LET receipt == reply.query[2]
    IN  IF receipt = <<>>
          THEN reply.code = 200 /\ reply.status = "pending" /\ reply.error = ""
          ELSE reply.status = IF receipt[1].status = 1 THEN "confirmed" ELSE "failed"

\* ---------------------------------------------------------------- C22
\* the track_pending call of p commits in this step
RecordStep(p) ==
  /\ pc[p] = "insert" /\ pc'[p] = "done"
  /\ Len(evm_pending_txs') > Len(evm_pending_txs)

\* C22: the record made after a broadcast of nonce n changes only rows with
\* the same (chain_id, from_address, n) and adds one submitted row for n.
\* Recording nonce n+1 before nonce n therefore leaves the row of n+1 as it
\* was, submitted, when the row of n is added.
C22_RecordOutOfOrder ==
  [][ \A p \in Reqs :
        RecordStep(p) =>
          /\ \A i \in DOMAIN evm_pending_txs :
                Key(evm_pending_txs[i]) # KeyOf(p) =>
                  evm_pending_txs'[i] = evm_pending_txs[i]
          /\ Len(evm_pending_txs') = Len(evm_pending_txs) + 1
          /\ Key(evm_pending_txs'[Len(evm_pending_txs')]) = KeyOf(p)
          /\ evm_pending_txs'[Len(evm_pending_txs')].status = "submitted"
    ]_vars

\* nonce 1 was recorded before nonce 0 of the same account and both rows are
\* submitted
C22_Witness ==
  \E i, j \in DOMAIN evm_pending_txs :
    /\ i < j
    /\ evm_pending_txs[i].chain_id = evm_pending_txs[j].chain_id
    /\ evm_pending_txs[i].from_address = evm_pending_txs[j].from_address
    /\ evm_pending_txs[i].nonce = evm_pending_txs[j].nonce + 1
    /\ evm_pending_txs[i].status = "submitted"
    /\ evm_pending_txs[j].status = "submitted"

\* ---------------------------------------------------------------- C23
\* the texts that give a key away: the key as posted and its hex body (a
\* request without a key has none)
SecretTexts(k) ==
  IF k = <<>> THEN {}
  ELSE {Str(k)} \cup { Str(k[i]) : i \in { j \in DOMAIN k : k[j] # "0x" } }

\* the texts stored in the two tables and written to the log
PersistedTexts ==
  UNION { { Str(evm_pending_txs[i][f]) : f \in DOMAIN evm_pending_txs[i] } :
          i \in DOMAIN evm_pending_txs }
  \cup UNION { {Str(a.chain_id), Str(a.from_address), Str(evm_nonces[a])} :
               a \in DOMAIN evm_nonces }
  \cup UNION { { l[i] : i \in DOMAIN l } : l \in UNION { LogLines(p) : p \in Reqs } }

\* C23: the secret key posted to submit_transfer is written to neither table
\* and to no log line, during the request and after it: the persistent state
\* (the two tables and the log) holds the key nowhere.
C23_KeyNotPersisted ==
  \A p \in Reqs : SecretTexts(req[p].key) \cap PersistedTexts = {}

\* a request that posted a key has ended with its transaction recorded, and
\* another one with an error that was logged
C23_Witness ==
  /\ \E p \in Reqs : /\ pc[p] = "done" /\ resp[p].code = 200
                      /\ req[p].key # <<>>
                      /\ \E i \in DOMAIN evm_pending_txs :
                           evm_pending_txs[i].tx_hash = tx_hash[p]
  /\ \E p \in Reqs : pc[p] = "done" /\ resp[p].code = 500 /\ req[p].key # <<>>

\* ---------------------------------------------------------------- C24
\* the configured chain a spelling names when letter case is ignored, or <<>>
ChainNamed(c) ==
  IF c \in {"base", "BASE"} THEN <<"base">>
  ELSE IF c \in DOMAIN CHAINS THEN <<c>>
  ELSE <<>>

\* request p passes the chain check of submit_transfer in this step
LookupStep(p) == pc[p] = "idle" /\ pc'[p] # "idle" /\ req'[p].key # <<>>

KeyBody(k) == IF Len(k) > 0 /\ k[1] = "0x" THEN Tail(k) ELSE k

\* the keys of KeyRequests that are well-formed private keys
WellFormedKey(k) == KeyBody(k) \in { <<"k1">>, <<"k2">> }

\* C25: derive is deterministic and prefix-insensitive. Every request with a
\* well-formed key gets an address; two requests with the same key get the
\* same address; and a key without the prefix gives the address of the same
\* key with the prefix 0x.
C25_DeriveDeterministic ==
  \A p \in Reqs :
    (pc[p] # "idle" /\ WellFormedKey(req[p].key)) =>
      /\ from_address[p] # ""
      /\ <<from_address[p]>> = derive_evm_address(<<"0x">> \o KeyBody(req[p].key))
      /\ \A q \in Reqs :
           (pc[q] # "idle" /\ KeyBody(req[q].key) = KeyBody(req[p].key)) =>
             from_address[q] = from_address[p]

\* one request posted a key without the prefix, another the same key with it,
\* a third the first key again; all hold one address
C25_Witness ==
  \E p, q, r \in Reqs :
    /\ p # r
    /\ req[p].key = <<"k1">> /\ req[q].key = <<"0x", "k1">> /\ req[r].key = <<"k1">>
    /\ from_address[p] = "0xA1" /\ from_address[q] = "0xA1" /\ from_address[r] = "0xA1"

\* ---------------------------------------------------------------- C26
\* request p has built its transaction
Built(p) ==
  \E k \in DOMAIN steps[p] : steps[p][k].call = "build" /\ steps[p][k].out = "ok"

\* the decimal amounts of BuildAmounts in units of 10^-18 and of 10^0
AmountInWei(amount) ==
  CASE amount = <<"1", ".", "0">>           -> [m |-> 1,    e |-> 18]
    [] amount = <<"0", ".", "5">>           -> [m |-> 5,    e |-> 17]
    [] amount = <<"2">>                     -> [m |-> 2,    e |-> 18]
    [] amount = <<"1", "2", ".", "2", "5">> -> [m |-> 1225, e |-> 16]

\* C26: for the native asset build returns a transaction whose to is the
\* recipient, whose value is the decimal amount scaled by 10^18 ("1.0" gives
\* 1 * 10^18), whose gas is 21000, whose nonce is the nonce argument and whose
\* chainId is the numeric id of the chain.
C26_NativeTransfer ==
  \A p \in Reqs :
    (Built(p) /\ req[p].token \in {"ETH", "eth"}) =>
      /\ tx[p] # NULL
      /\ tx[p][1].to = req[p].toAddress
      /\ tx[p][1].value = AmountInWei(req[p].amount)
      /\ tx[p][1].gas = 21000
      /\ tx[p][1].nonce = nonce[p]
      /\ tx[p][1].chainId = CHAINS[ChainNamed(req[p].chain)[1]].chain_id

\* 1.0 ETH on arbitrum with nonce 2 was built: value 10^18, chain id 42161
C26_Witness ==
  \E p \in Reqs :
    /\ Built(p) /\ req[p].token = "ETH" /\ req[p].chain = "arbitrum"
    /\ req[p].amount = <<"1", ".", "0">>
    /\ nonce[p] = 2
    /\ tx[p][1].value = [m |-> 1, e |-> 18]
    /\ tx[p][1].chainId = 42161

\* ---------------------------------------------------------------- C27
\* the configuration key of a token symbol
TokenKey(token) == IF token \in {"USDC", "usdc"} THEN "usdc" ELSE "usdt"

\* C27: for a token configured on the chain build returns a transaction whose
\* to is the token's contract address and not the recipient, whose value is 0,
\* whose gas is 100000, whose nonce is the nonce argument and whose chainId is
\* the numeric id of the chain.
C27_TokenTransfer ==
  \A p \in Reqs :
    (Built(p) /\ req[p].token \in {"USDC", "usdc", "usdt"}) =>
      /\ tx[p] # NULL
      /\ tx[p][1].to = CHAINS[ChainNamed(req[p].chain)[1]][TokenKey(req[p].token)]
      /\ tx[p][1].to # req[p].toAddress
      /\ tx[p][1].value = [m |-> 0, e |-> 0]
      /\ tx[p][1].gas = 100000
      /\ tx[p][1].nonce = nonce[p]
      /\ tx[p][1].chainId = CHAINS[ChainNamed(req[p].chain)[1]].chain_id

\* a USDC transfer on BASE with nonce 1 was built, addressed to the contract
C27_Witness ==
  \E p \in Reqs :
    /\ Built(p) /\ req[p].token = "USDC" /\ req[p].chain = "BASE"
    /\ nonce[p] = 1
    /\ tx[p][1].to = "0x833589fC"
    /\ tx[p][1].gas = 100000

\* ---------------------------------------------------------------- C28
\* request p took a fresh nonce and then failed in build, sign or broadcast
FailedAfterFresh(p) ==
  /\ path[p] = "fresh" /\ pc[p] = "done"
  /\ LastStep(p).call \in {"build", "sign", "broadcast"}
  /\ LastStep(p).out # "ok"

\* C28: an allocated fresh nonce is never retracted. When build, sign or
\* broadcast fails after a fresh allocation the counter of the account keeps
\* the incremented value (it stays at or above the nonce), and the fresh path
\* has returned that nonce once only: no other allocate got it fresh.
C28_NoRetraction ==
  \A p \in Reqs :
    FailedAfterFresh(p) =>
      LET a == AccountOf(p)
      IN  /\ a \in DOMAIN evm_nonces
          /\ evm_nonces[a] >= nonce[p]
          /\ Cardinality({ k \in DOMAIN fresh_log[a] : fresh_log[a][k] = nonce[p] }) = 1
          /\ \A q \in Reqs \ {p} :
                (path[q] = "fresh" /\ AccountOf(q) = a) => nonce[q] # nonce[p]

\* a request failed after taking the fresh nonce 0 and two later requests
\* took 1 and 2
C28_Witness ==
  \E p \in Reqs :
    /\ FailedAfterFresh(p) /\ nonce[p] = 0
    /\ evm_nonces[AccountOf(p)] = 2
    /\ \E q, r \in Reqs \ {p} :
         /\ path[q] = "fresh" /\ nonce[q] = 1
         /\ path[r] = "fresh" /\ nonce[r] = 2

\* ---------------------------------------------------------------- C29
\* p was given a stuck row's nonce and no record for that nonce has committed
\* since: the row is still submitted (and stuck)
HeldReuse(p) ==
  /\ path[p] = "reuse"
  /\ \E i \in StuckNow(p) : evm_pending_txs[i].nonce = nonce[p]

\* the stuck query of q, a request of p's account, returns in this step
FurtherAllocate(p, q) ==
  /\ p # q
  /\ HeldReuse(p)
  /\ pc[q] = "allocate" /\ pc'[q] \notin {"allocate", "done"}
  /\ AccountOf(q) = AccountOf(p)

\* C29 as stated: from the moment allocate returns a stuck row's nonce until a
\* record for that nonce commits, every further allocate for the account
\* returns that same nonce again.
C29_Original_SameNonceAgain ==
  [][ \A p, q \in Reqs :
        FurtherAllocate(p, q) => (pc'[q] = "build" /\ nonce'[q] = nonce[p])
    ]_vars

\* C29 (amended): the reuse path of allocate writes nothing and reserves
\* nothing. A reuse return leaves both tables as they were; and from the
\* moment allocate returns a stuck row's nonce until a record for that nonce
\* commits, every further allocate for the account takes the reuse path too
\* and returns the lowest stuck nonce: that same nonce again, unless a row
\* with a lower nonce has become stuck in the meantime.
C29_ReuseReservesNothing ==
  [][ /\ \A q \in Reqs :
           (pc[q] = "allocate" /\ pc'[q] = "build") =>
             UNCHANGED <<evm_nonces, evm_pending_txs, fresh_log>>
      /\ \A p, q \in Reqs :
           FurtherAllocate(p, q) =>
             /\ pc'[q] = "build" /\ path'[q] = "reuse"
             /\ nonce'[q] <= nonce[p]
             /\ \E i \in StuckNow(q) : evm_pending_txs[i].nonce = nonce'[q]
             /\ \A i \in StuckNow(q) : evm_pending_txs[i].nonce >= nonce'[q]
             /\ (\A i \in StuckNow(p) : evm_pending_txs[i].nonce >= nonce[p]) =>
                  nonce'[q] = nonce[p]
    ]_vars

\* two requests in flight hold the same reused nonce, and a third, whose
\* broadcast of that nonce was rejected, held it before them
C29_Witness ==
  \E p, q, r \in Reqs :
    /\ p # q /\ p # r /\ q # r
    /\ path[p] = "reuse" /\ path[q] = "reuse" /\ path[r] = "reuse"
    /\ nonce[p] = nonce[q] /\ nonce[q] = nonce[r]
    /\ pc[p] \in {"build", "sign", "broadcast"}
    /\ pc[q] \in {"build", "sign", "broadcast"}
    /\ pc[r] = "done" /\ LastStep(r).out = "BroadcastRejected"

\* ---------------------------------------------------------------- C30
\* the row first recorded under hash h is no longer 'submitted'
Flipped(h) ==
  \A i \in DOMAIN evm_pending_txs :
    evm_pending_txs[i].tx_hash = h => evm_pending_txs[i].status # "submitted"

\* C30: if transfers of the account keep being requested (and every reuse
\* broadcast succeeds and is recorded, which the specification's steps and
\* fairness provide), every stuck row is eventually flipped to replaced: no
\* stuck row is postponed forever by the repeated reuse of another nonce.
C30_StarvationFree ==
  ([]<><<\E p \in Reqs : SubmitMore(p)>>_vars) =>
    (<>Flipped(<<"old", 0>>) /\ <>Flipped(<<"old", 1>>))

\* ---------------------------------------------------------------- C31
\* every ledger row's nonce is at most the counter value of its account
RowsWithinCounter ==
  \A i \in DOMAIN evm_pending_txs :
    LET a == Account(evm_pending_txs[i].chain_id, evm_pending_txs[i].from_address)
    IN  /\ a \in DOMAIN evm_nonces
        /\ evm_pending_txs[i].nonce <= evm_nonces[a]

\* C31: with the ledger filled by submit_transfer only, every row's nonce is
\* at most the current counter value of its account, and so the nonce the
\* fresh path returns is the nonce of no row the ledger holds at that moment.
C31_RowsWithinCounter ==
  [][ /\ RowsWithinCounter'
      /\ \A p \in Reqs :
           (pc[p] = "upsert" /\ pc'[p] = "build") =>
             \A i \in DOMAIN evm_pending_txs' :
               Key(evm_pending_txs'[i]) # <<ChainId(p), from_address[p], nonce'[p]>> ]_vars

\* the fresh path has returned 2 while the ledger holds rows of the account
\* with the nonces 0 and 1, the counter's value before the call
C31_Witness ==
  \E p \in Reqs :
    /\ path[p] = "fresh" /\ pc[p] = "build" /\ nonce[p] = 2
    /\ evm_nonces[AccountOf(p)] = 2
    /\ \E i, j \in DOMAIN evm_pending_txs :
         /\ Key(evm_pending_txs[i]) = <<ChainId(p), from_address[p], 0>>
         /\ Key(evm_pending_txs[j]) = <<ChainId(p), from_address[p], 1>>

\* ---------------------------------------------------------------- C32
\* a body that submit_transfer rejects: no key, a chain that is not
\* configured, or a key that is not a private key
RejectedInput(r) ==
  IF r.key = <<>> THEN TRUE
  ELSE IF Lower(r.chain) \notin DOMAIN CHAINS THEN TRUE
  ELSE ~WellFormedKey(r.key)

\* C32: a request rejected for a missing key, an unsupported chain or a
\* malformed key changes nothing. The step that reads it answers with an error
\* and leaves both tables as they were, and the request never gets a nonce, a
\* transaction or a broadcast hash and makes none of the calls.
C32_RejectedChangesNothing ==
  [][ \A p \in Reqs :
        (pc'[p] # "idle" /\ RejectedInput(req'[p])) =>
          /\ pc'[p] = "done" /\ resp'[p].code \in {400, 500}
          /\ nonce'[p] = -1 /\ path'[p] = "none"
          /\ tx'[p] = NULL /\ tx_hash'[p] = NULL /\ steps'[p] = <<>>
          /\ pc[p] = "idle" => UNCHANGED <<evm_nonces, evm_pending_txs, fresh_log>> ]_vars

\* a request without a key and a request with a malformed key have been
\* rejected, next to an accepted request of the account that allocated and
\* recorded nonce 0
C32_Witness ==
  /\ Len(evm_pending_txs) = 1
  /\ \E a \in DOMAIN evm_nonces : evm_nonces[a] = 0
  /\ \E p, q \in Reqs :
       /\ pc[p] = "done" /\ steps[p] = <<>> /\ req[p].key = <<>>
       /\ pc[q] = "done" /\ steps[q] = <<>> /\ req[q].key # <<>>
       /\ Lower(req[q].chain) \in DOMAIN CHAINS /\ ~WellFormedKey(req[q].key)

\* ---------------------------------------------------------------- C33
\* p has been answered 200
Succeeded(p) == pc[p] = "done" /\ resp[p].code = 200

\* the rows of the ledger that carry the hash of p's broadcast
RowsOf(p) == { i \in DOMAIN evm_pending_txs : evm_pending_txs[i].tx_hash = tx_hash[p] }

\* what a successful request holds: one nonce in the transaction, the ledger
\* row and the response, and the row under the account of the allocation
OneNonce(p) ==
  /\ tx[p][1].nonce = nonce[p]
  /\ signed_tx(p)[1].tx.nonce = nonce[p]
  /\ resp[p].nonce = nonce[p] /\ resp[p].txHash = tx_hash[p]
  /\ RowsOf(p) # {}
  /\ \A i \in RowsOf(p) :
       /\ evm_pending_txs[i].nonce = nonce[p]
       /\ evm_pending_txs[i].chain_id = ChainId(p)
       /\ evm_pending_txs[i].from_address = from_address[p]
  /\ tx[p][1].chainId = ChainId(p)
  /\ tx[p][1].from = from_address[p]
  /\ signed_tx(p)[1].signer = from_address[p]
  /\ <<from_address[p]>> = derive_evm_address(req[p].key)

\* C33: in a successful submit_transfer the nonce allocate returned is the
\* nonce of the broadcast transaction, of the inserted ledger row and of the
\* response; the row's chain id and from address are those allocate was called
\* with, and the from address is the address of the key that signs. What
\* allocate returned, and the account it was called with, stay the request's
\* nonce and account until the answer, and the row inserted at the end is the
\* row of that nonce and account.
C33_OneNonceThroughout ==
  [][ \A p \in Reqs :
        /\ pc[p] \notin {"idle", "allocate", "upsert"} =>
             /\ nonce'[p] = nonce[p]
             /\ from_address'[p] = from_address[p]
             /\ req'[p] = req[p]
        /\ RecordStep(p) =>
             LET row == evm_pending_txs'[Len(evm_pending_txs')]
             IN  /\ Key(row) = KeyOf(p)
                 /\ row.tx_hash = tx_hash[p]
                 /\ path[p] = "fresh" =>
                      /\ AccountOf(p) \in DOMAIN evm_nonces
                      /\ nonce[p] <= evm_nonces[AccountOf(p)]
        /\ Succeeded(p)' => OneNonce(p)' ]_vars

\* two requests have succeeded, one with the fresh nonce 1 and one with a
\* reused nonce
C33_Witness ==
  \E p, q \in Reqs :
    /\ Succeeded(p) /\ path[p] = "fresh" /\ nonce[p] = 1
    /\ Succeeded(q) /\ path[q] = "reuse"

====
